---- MODULE Spec2Model ----
(***************************************************************************)
(* Generic Modbus energy meter driver (xnrg_29_modbus): the schema builder *)
(* EnergyModbusReadRegisters and the polling tick EnergyModbusLoop.        *)
(* Arrays of the C code that are indexed from 0 are sequences here, so     *)
(* NrgMbsReg[i] of the code is NrgMbsReg[i + 1] of the model.              *)
(***************************************************************************)
EXTENDS Integers, Sequences, FiniteSets, TLC

(***************************************************************************)
(* Program constants                                                       *)
(***************************************************************************)
ENERGY_MAX_PHASES == 3
ENERGY_MODBUS_ADDR == 1
ENERGY_MODBUS_FUNC == 4
ENERGY_MODBUS_DATATYPE == 0
ENERGY_MODBUS_DECIMALS == 0
nrg_mbs_reg_not_used == 65535
NRG_DT_FLOAT == 0
NRG_DT_S16 == 1
NRG_DT_S32 == 2
NRG_DT_U16 == 3
NRG_DT_U32 == 4
NRG_DT_S32_SW == 6
NRG_DT_U32_SW == 8
NRG_DT_MAX == 9
NRG_MBS_VOLTAGE == 0
NRG_MBS_CURRENT == 1
NRG_MBS_FREQUENCY == 6
NRG_MBS_TOTAL_ENERGY == 7
NRG_MBS_MAX_REGS == 9

Min(a, b) == IF a < b THEN a ELSE b
\* F applied to the value of e
With(e, F(_)) == CHOOSE r \in {F(v) : v \in {e}} : TRUE

\* C integer conversions
ToUInt8(x) == x % 256
ToUInt16(x) == x % 65536
ToInt16(x) == LET u == x % 65536 IN IF u >= 32768 THEN u - 65536 ELSE u

(***************************************************************************)
(* JSON values of the rule file, as the parser hands them to the builder.  *)
(* A token is absent ("none"), a number, or an array of numbers.           *)
(***************************************************************************)
None == [t |-> "none", n |-> 0, a |-> << >>]
Num(n) == [t |-> "num", n |-> n, a |-> << >>]
Arr(a) == [t |-> "arr", n |-> 0, a |-> a]

\* A built-in quantity key: absent, a number, an array, or an object {R,T,F,M}
Entry(t, n, a, R, T, F, M) ==
    [t |-> t, n |-> n, a |-> a, R |-> R, T |-> T, F |-> F, M |-> M]
EAbsent == Entry("none", 0, << >>, None, None, None, None)
ENum(n) == Entry("num", n, << >>, None, None, None, None)
EArr(a) == Entry("arr", 0, a, None, None, None, None)
EObj(R, T, F, M) == Entry("obj", 0, << >>, R, T, F, M)

\* One element of the User list: an object {R,T,F,M,J,G,U,D} or something else
UserItem(obj, R, T, F, M, J, G, U, D) ==
    [obj |-> obj, R |-> R, T |-> T, F |-> F, M |-> M,
     J |-> J, G |-> G, U |-> U, D |-> D]

(***************************************************************************)
(* Values held by the measurement sinks and the user caches.  A float is   *)
(* kept as the decoded quantity with the scaling applied to it, times mul  *)
(* and divided by div.  k = "nan" is NAN; k = "f32" is the float whose bit *)
(* pattern has the high word a and the low word b; k = "num" is the float  *)
(* a * 2^b converted from an integer.  A uint32_t is a pair of 16-bit      *)
(* words <<high, low>>.                                                    *)
(***************************************************************************)
Value(k, a, b, mul, div) == [k |-> k, a |-> a, b |-> b, mul |-> mul, div |-> div]
One32 == <<0, 1>>
NAN == Value("nan", 0, 0, One32, One32)
Zero == Value("num", 0, 0, One32, One32)

(***************************************************************************)
(* Memory of the driver: NrgMbsParam (P), NrgMbsReg (Reg), NrgMbsUser      *)
(* (User, UserNull), the host's Energy structure (E) and Settings (S).     *)
(***************************************************************************)
SinkNames == <<"voltage", "current", "active_power", "apparent_power",
               "reactive_power", "power_factor", "frequency",
               "import_active", "export_active">>

NoData == <<NAN, NAN, NAN>>

\* The zero-initialised globals before EnergyModbusReadRegisters runs
Param0 ==
    [device_address |-> <<0, 0, 0>>, devices |-> 0, function |-> 0,
     total_regs |-> 0, user_adds |-> 0, phase |-> 0, state |-> 0,
     retry |-> 0, mutex |-> FALSE]

Energy0 ==
    [phase_count |-> 1, voltage_available |-> TRUE, current_available |-> TRUE,
     voltage_common |-> FALSE, frequency_common |-> FALSE,
     data_valid |-> <<0, 0, 0>>,
     voltage |-> NoData, current |-> NoData, active_power |-> NoData,
     apparent_power |-> NoData, reactive_power |-> NoData,
     power_factor |-> NoData, frequency |-> NoData,
     import_active |-> NoData, export_active |-> NoData]

Settings0 == [hardware_energy_total |-> FALSE, energy_phase |-> FALSE]

Memory0 ==
    [P |-> Param0, Reg |-> << >>, RegNull |-> TRUE, User |-> << >>,
     UserNull |-> TRUE, E |-> Energy0, S |-> Settings0,
     add_index |-> 0, stop |-> FALSE, res |-> "run"]

\* calloc()ed NrgMbsRegister_t after the defaults loop
DefaultRegister ==
    [address |-> <<nrg_mbs_reg_not_used, nrg_mbs_reg_not_used, nrg_mbs_reg_not_used>>,
     factor |-> 0, datatype |-> ENERGY_MODBUS_DATATYPE]

\* calloc()ed NrgMbsUser_t after the defaults loop, and the spare one that
\* the loop leaves zeroed (names are 0 = nullptr, -1 = EmptyStr, otherwise
\* a string id)
DefaultUser ==
    [data |-> NoData, json_name |-> 0, gui_name |-> 0, gui_unit |-> 0,
     resolution |-> ENERGY_MODBUS_DECIMALS]
ZeroUser ==
    [data |-> <<Zero, Zero, Zero>>, json_name |-> 0, gui_name |-> 0,
     gui_unit |-> 0, resolution |-> 0]

(***************************************************************************)
(* Schema builder: EnergyModbusReadRegisters, one operator per stage.      *)
(***************************************************************************)

\* "User" key: the number of user registers announced by the rule
UserAdds(user) ==
    IF user.t = "none" THEN 0
    ELSE IF user.t = "arr" THEN ToUInt8(Len(user.items))
    ELSE 1

\* Defaults and allocation.  heap says which calloc() fails, if any.
ReadRegistersInit(M, cfg, heap) ==
    LET adds == UserAdds(cfg.User)
        total == ToUInt8(NRG_MBS_MAX_REGS + adds)
        P1 == [M.P EXCEPT !.device_address[1] = ENERGY_MODBUS_ADDR,
                          !.devices = 1,
                          !.function = ENERGY_MODBUS_FUNC,
                          !.user_adds = adds,
                          !.total_regs = total]
        E1 == [M.E EXCEPT !.phase_count = 1]
    IN  IF heap = "noreg"
        THEN [M EXCEPT !.P = P1, !.E = E1, !.res = "fail"]
        ELSE LET M1 == [M EXCEPT !.P = P1, !.E = E1, !.RegNull = FALSE,
                                 !.Reg = [i \in 1..total |-> DefaultRegister]]
             IN  IF adds = 0 THEN M1
                 ELSE IF heap = "nouser"
                 THEN [M1 EXCEPT !.P.user_adds = 0,
                                 !.P.total_regs = NRG_MBS_MAX_REGS]
                 ELSE [M1 EXCEPT !.UserNull = FALSE,
                                 !.User = [i \in 1..(adds + 1) |->
                                             IF i <= adds THEN DefaultUser
                                             ELSE ZeroUser]]

RECURSIVE ReadDeviceArray(_, _, _)
\* for (auto value : arr) { device_address[devices] = value; devices++; break at 3 }
ReadDeviceArray(P, arr, k) ==
    IF k > Len(arr) THEN P
    ELSE LET P1 == [P EXCEPT !.device_address[P.devices + 1] = ToUInt8(arr[k]),
                             !.devices = P.devices + 1]
         IN  IF P1.devices >= ENERGY_MAX_PHASES THEN P1
             ELSE ReadDeviceArray(P1, arr, k + 1)

\* "Address" key
ReadRegistersAddress(M, cfg) ==
    LET val == cfg.Address
    IN  IF val.t = "none" THEN M
        ELSE IF val.t = "arr"
        THEN [M EXCEPT !.P = ReadDeviceArray([M.P EXCEPT !.devices = 0], val.a, 1)]
        ELSE [M EXCEPT !.P.device_address[1] = ToUInt8(val.n), !.P.devices = 1]

\* "Function" key, and the reset of the availability flags
ReadRegistersFunction(M, cfg) ==
    LET M1 == [M EXCEPT !.E.voltage_available = FALSE,
                        !.E.current_available = FALSE]
    IN  IF cfg.Function.t = "none" THEN M1
        ELSE [M1 EXCEPT !.P.function = ToUInt8(cfg.Function.n)]

\* Register address(es) "R": scalar or array of up to ENERGY_MAX_PHASES
ReadAddress(address, val) ==
    IF val.t = "arr"
    THEN LET n == Min(Len(val.a), ENERGY_MAX_PHASES)
         IN  [address |-> <<IF 1 <= n THEN ToUInt16(val.a[1]) ELSE address[1],
                            IF 2 <= n THEN ToUInt16(val.a[2]) ELSE address[2],
                            IF 3 <= n THEN ToUInt16(val.a[3]) ELSE address[3]>>,
              phase |-> n]
    ELSE IF val.t # "none"
    THEN [address |-> [address EXCEPT ![1] = ToUInt16(val.n)], phase |-> 1]
    ELSE [address |-> address, phase |-> 0]

RECURSIVE DividerFactorDigits(_)
\* Faulty variant of DividerFactor: one step for every decimal digit
DividerFactorDigits(divider) ==
    IF divider > 0 THEN DividerFactorDigits(divider \div 10) - 1 ELSE 0

RECURSIVE DividerFactorFloor(_)
\* Faulty variant of DividerFactor: the loop stops below ten
DividerFactorFloor(divider) ==
    IF divider >= 10 THEN DividerFactorFloor(divider \div 10) - 1 ELSE 0

RECURSIVE DividerFactor(_)
\* [LEGACY] "M": while (divider > 1) { divider /= 10; factor--; }
DividerFactor(divider) ==
    IF divider > 1 THEN DividerFactor(divider \div 10) - 1 ELSE 0

\* "T", "F" and "M" of an object (getUInt() values stay below 2^31 here)
ReadTypeFactor(reg, T, F, M) ==
    LET r1 == IF T.t # "none" THEN [reg EXCEPT !.datatype = T.n] ELSE reg
        r2 == IF F.t # "none" THEN [r1 EXCEPT !.factor = ToInt16(F.n)] ELSE r1
    IN  IF M.t # "none" THEN [r2 EXCEPT !.factor = ToInt16(DividerFactor(M.n))]
        ELSE r2

\* Faulty variant of RaisePhaseCount: the device count is left as configured
RaisePhaseCountOnly(M, phase) ==
    IF phase > M.E.phase_count THEN [M EXCEPT !.E.phase_count = phase] ELSE M

\* if (phase > Energy.phase_count) { devices = 1; phase_count = phase; }
RaisePhaseCount(M, phase) ==
    IF phase > M.E.phase_count
    THEN [M EXCEPT !.P.devices = 1, !.E.phase_count = phase]
    ELSE M

\* Faulty variant of RegisterFlags: the common flags are set for any number
\* of addresses
RegisterFlagsAnyPhase(M, names, phase) ==
    IF names = NRG_MBS_VOLTAGE
    THEN [M EXCEPT !.E.voltage_available = TRUE, !.E.voltage_common = TRUE]
    ELSE IF names = NRG_MBS_CURRENT
    THEN [M EXCEPT !.E.current_available = TRUE]
    ELSE IF names = NRG_MBS_FREQUENCY
    THEN [M EXCEPT !.E.frequency_common = TRUE]
    ELSE IF names = NRG_MBS_TOTAL_ENERGY
    THEN [M EXCEPT !.S.hardware_energy_total = TRUE]
    ELSE M

\* switch (names): the host flags a configured built-in quantity sets
RegisterFlags(M, names, phase) ==
    IF names = NRG_MBS_VOLTAGE
    THEN [M EXCEPT !.E.voltage_available = TRUE,
                   !.E.voltage_common = IF phase = 1 THEN TRUE ELSE @]
    ELSE IF names = NRG_MBS_CURRENT
    THEN [M EXCEPT !.E.current_available = TRUE]
    ELSE IF names = NRG_MBS_FREQUENCY
    THEN [M EXCEPT !.E.frequency_common = IF phase = 1 THEN TRUE ELSE @]
    ELSE IF names = NRG_MBS_TOTAL_ENERGY
    THEN [M EXCEPT !.S.hardware_energy_total = TRUE]
    ELSE M

\* One pass of the loop over the built-in quantity names
ReadRegistersName(M, cfg, names) ==
    LET val == cfg.Reg[names + 1]
    IN  IF val.t = "none" THEN M
        ELSE LET reg == M.Reg[names + 1]
                 rv == IF val.t = "obj" THEN val.R
                       ELSE [t |-> val.t, n |-> val.n, a |-> val.a]
                 ra == ReadAddress(reg.address, rv)
                 r1 == [reg EXCEPT !.address = ra.address]
                 r2 == IF val.t = "obj"
                       THEN ReadTypeFactor(r1, val.T, val.F, val.M) ELSE r1
                 M1 == [M EXCEPT !.Reg[names + 1] = r2]
             IN  RegisterFlags(RaisePhaseCount(M1, ra.phase), names, ra.phase)

\* EnergyModbusReadUserRegisters: the memory after the call and its result
ReadUserRegisters(M, item, add_index) ==
    LET reg_index == NRG_MBS_MAX_REGS + add_index
        reg == M.Reg[reg_index + 1]
        ra == ReadAddress(reg.address, item.R)
    IN  IF ra.phase = 0 /\ item.R.t # "arr" THEN [M |-> M, ok |-> FALSE]
        ELSE
        LET r1 == ReadTypeFactor([reg EXCEPT !.address = ra.address],
                                 item.T, item.F, item.M)
            M1 == RaisePhaseCount([M EXCEPT !.Reg[reg_index + 1] = r1], ra.phase)
        IN  IF item.J.t = "none" THEN [M |-> M1, ok |-> FALSE]
            ELSE IF M1.UserNull THEN [M |-> [M1 EXCEPT !.res = "crash"], ok |-> FALSE]
            ELSE
            LET M2 == [M1 EXCEPT !.User[add_index + 1].json_name = item.J.n]
            IN  IF item.G.t = "none" THEN [M |-> M2, ok |-> FALSE]
                ELSE [M |-> [M2 EXCEPT
                        !.User[add_index + 1].gui_name = item.G.n,
                        !.User[add_index + 1].gui_unit =
                            IF item.U.t # "none" THEN item.U.n ELSE -1,
                        !.User[add_index + 1].resolution =
                            IF item.D.t # "none" THEN item.D.n
                            ELSE ENERGY_MODBUS_DECIMALS],
                      ok |-> TRUE]

\* One pass of the loop over the "User" array (k = 1..), or the single object
ReadRegistersUser(M, cfg, k) ==
    LET item == cfg.User.items[k]
    IN  IF M.stop \/ M.res # "run" THEN M
        ELSE IF ~item.obj
        THEN [M EXCEPT !.stop = TRUE]
        ELSE LET r == ReadUserRegisters(M, item, M.add_index)
             IN  IF r.ok THEN [r.M EXCEPT !.add_index = M.add_index + 1]
                 ELSE [r.M EXCEPT !.P.user_adds = ToUInt8(M.P.user_adds - 1)]

\* total_regs = NRG_MBS_MAX_REGS + user_adds, after the "User" key
ReadRegistersUserEnd(M, cfg) ==
    IF cfg.User.t = "none" \/ M.res # "run" THEN M
    ELSE [M EXCEPT !.P.total_regs = ToUInt8(NRG_MBS_MAX_REGS + M.P.user_adds)]

\* if (datatype >= NRG_DT_MAX) datatype = ENERGY_MODBUS_DATATYPE
ReadRegistersDatatype(M) ==
    IF M.res # "run" THEN M
    ELSE [M EXCEPT !.Reg = [i \in 1..Len(M.Reg) |->
            IF i <= M.P.total_regs /\ M.Reg[i].datatype >= NRG_DT_MAX
            THEN [M.Reg[i] EXCEPT !.datatype = ENERGY_MODBUS_DATATYPE]
            ELSE M.Reg[i]]]

\* Faulty variant of ReadRegistersDevices: the phase count becomes the
\* device count whatever the device count is
ReadRegistersDevicesAlways(M) ==
    IF M.res # "run" THEN M
    ELSE [M EXCEPT !.E.phase_count = M.P.devices, !.res = "ok"]

\* Faulty variant of ReadRegistersDevices: the device count never becomes
\* the phase count
ReadRegistersDevicesKeep(M) ==
    IF M.res # "run" THEN M ELSE [M EXCEPT !.res = "ok"]

\* if (devices > 1) { phase_count = devices; no common voltage/frequency }
ReadRegistersDevices(M) ==
    IF M.res # "run" THEN M
    ELSE IF M.P.devices > 1
    THEN [M EXCEPT !.E.phase_count = M.P.devices,
                   !.E.voltage_common = FALSE,
                   !.E.frequency_common = FALSE,
                   !.S.energy_phase = TRUE,
                   !.res = "ok"]
    ELSE [M EXCEPT !.res = "ok"]

(***************************************************************************)
(* Frame codec and scaling of EnergyModbusLoop.  buffer holds the payload  *)
(* bytes buffer[3..6] of the response as <<b3, b4, b5, b6>>.               *)
(***************************************************************************)
Pow2(n) == 2 ^ n

\* Faulty variant of RegisterCount: "even data type is single register, odd
\* data type is double registers"
RegisterCountOdd(datatype) == 1 + (datatype % 2)

\* register_count = 2 - (datatype & 1)
RegisterCount(datatype) == 2 - (datatype % 2)

\* position of the highest set bit of a 16-bit word
Log2(x) == IF x < 2 THEN 0 ELSE CHOOSE e \in 1..15 : 2 ^ e <= x /\ x < 2 ^ (e + 1)

\* (float) of the integer of magnitude hi * 65536 + lo: mantissa and binary
\* exponent, rounded to nearest, ties to even, on a 24-bit mantissa
FloatOfMagnitude(hi, lo) ==
    LET e == IF hi = 0 THEN 0 ELSE Log2(hi) + 17 - 24
    IN  IF e <= 0 THEN <<hi * 65536 + lo, 0>>
        ELSE LET q == hi * Pow2(16 - e) + lo \div Pow2(e)
                 r == lo % Pow2(e)
                 half == Pow2(e - 1)
                 up == r > half \/ (r = half /\ q % 2 = 1)
                 m == IF up THEN q + 1 ELSE q
             IN  IF m = 16777216 THEN <<8388608, e + 1>> ELSE <<m, e>>

\* (float)value_buff of a uint32_t / int32_t given by its 16-bit words
FloatOfUInt32(hi, lo) ==
    LET f == FloatOfMagnitude(hi, lo)
    IN  Value("num", f[1], f[2], One32, One32)

FloatOfInt32(hi, lo) ==
    IF hi < 32768 THEN FloatOfUInt32(hi, lo)
    ELSE LET mlo == (65536 - lo) % 65536
             mhi == (65535 - hi) + (IF lo = 0 THEN 1 ELSE 0)
             f == FloatOfMagnitude(mhi, mlo)
         IN  Value("num", -f[1], f[2], One32, One32)

\* Faulty variant of DecodeBuffer: the swapped types take the first
\* transmitted word as the high word too
DecodeBufferUnswapped(buffer, datatype, garbage) ==
    LET first == buffer[1] * 256 + buffer[2]
        second == buffer[3] * 256 + buffer[4]
    IN  IF datatype = NRG_DT_FLOAT
        THEN Value("f32", first, second, One32, One32)
        ELSE IF datatype = NRG_DT_S16
        THEN Value("num", ToInt16(first), 0, One32, One32)
        ELSE IF datatype = NRG_DT_U16
        THEN Value("num", ToUInt16(first), 0, One32, One32)
        ELSE IF datatype \in {NRG_DT_S32, NRG_DT_S32_SW} THEN FloatOfInt32(first, second)
        ELSE IF datatype \in {NRG_DT_U32, NRG_DT_U32_SW} THEN FloatOfUInt32(first, second)
        ELSE garbage

\* switch (datatype): the float decoded from the payload; a datatype without
\* a case leaves the float uninitialised (garbage)
DecodeBuffer(buffer, datatype, garbage) ==
    LET first == buffer[1] * 256 + buffer[2]
        second == buffer[3] * 256 + buffer[4]
    IN  IF datatype = NRG_DT_FLOAT
        THEN Value("f32", first, second, One32, One32)
        ELSE IF datatype = NRG_DT_S16
        THEN Value("num", ToInt16(first), 0, One32, One32)
        ELSE IF datatype = NRG_DT_U16
        THEN Value("num", ToUInt16(first), 0, One32, One32)
        ELSE IF datatype = NRG_DT_S32 THEN FloatOfInt32(first, second)
        ELSE IF datatype = NRG_DT_S32_SW THEN FloatOfInt32(second, first)
        ELSE IF datatype = NRG_DT_U32 THEN FloatOfUInt32(first, second)
        ELSE IF datatype = NRG_DT_U32_SW THEN FloatOfUInt32(second, first)
        ELSE garbage

\* factor *= 10 on a uint32_t
Times10(f) ==
    LET lo == f[2] * 10
    IN  <<(f[1] * 10 + lo \div 65536) % 65536, lo % 65536>>

RECURSIVE ScalerFactor(_)
\* uint32_t factor = 1; while (scaler) { factor *= 10; scaler--; }
ScalerFactor(scaler) ==
    IF scaler = 0 THEN One32 ELSE Times10(ScalerFactor(scaler - 1))

\* value /= factor or value *= factor
ScaleValue(value, factor) ==
    LET f == ScalerFactor(IF factor < 0 THEN -factor ELSE factor)
    IN  IF factor < 0 THEN [value EXCEPT !.div = f]
        ELSE [value EXCEPT !.mul = f]

\* Faulty variant of StoreValue: a built-in value goes to every phase of
\* its sink
StoreValueAllPhases(M, value) ==
    LET state == M.P.state
        ph == M.P.phase + 1
    IN  IF state < NRG_MBS_MAX_REGS
        THEN [M EXCEPT !.E[SinkNames[state + 1]] = <<value, value, value>>]
        ELSE IF ~M.UserNull
        THEN [M EXCEPT !.User[state - NRG_MBS_MAX_REGS + 1].data[ph] = value]
        ELSE M

\* switch (NrgMbsParam.state): the sink of the decoded value
StoreValue(M, value) ==
    LET state == M.P.state
        ph == M.P.phase + 1
    IN  IF state < NRG_MBS_MAX_REGS
        THEN [M EXCEPT !.E[SinkNames[state + 1]][ph] = value]
        ELSE IF ~M.UserNull
        THEN [M EXCEPT !.User[state - NRG_MBS_MAX_REGS + 1].data[ph] = value]
        ELSE M

\* Faulty variant of NextRegister: steps from register to register and
\* never to the next phase of a register
NextRegisterStateOnly(P, Reg, phase_count, passes) ==
    IF ToUInt8(P.state + 1) >= P.total_regs
    THEN [P |-> [P EXCEPT !.state = 0, !.phase = 0], update |-> TRUE,
          passes |-> passes + 1]
    ELSE [P |-> [P EXCEPT !.state = ToUInt8(P.state + 1), !.phase = 0],
          update |-> FALSE, passes |-> passes + 1]

\* Faulty variant of NextRegister: one pass, without the test for an unused
\* address
NextRegisterOnePass(P, Reg, phase_count, passes) ==
    LET ph1 == ToUInt8(P.phase + 1)
        roll == ph1 >= phase_count
        st1 == IF roll THEN ToUInt8(P.state + 1) ELSE P.state
    IN  IF roll /\ st1 >= P.total_regs
        THEN [P |-> [P EXCEPT !.state = 0, !.phase = 0], update |-> TRUE,
              passes |-> passes + 1]
        ELSE [P |-> [P EXCEPT !.phase = IF roll THEN 0 ELSE ph1, !.state = st1],
              update |-> FALSE, passes |-> passes + 1]

RECURSIVE NextRegisterLateRoll(_, _, _, _)
\* Faulty variant of NextRegister: the phase rolls over one step late
NextRegisterLateRoll(P, Reg, phase_count, passes) ==
    LET ph1 == ToUInt8(P.phase + 1)
        roll == ph1 > phase_count
        st1 == IF roll THEN ToUInt8(P.state + 1) ELSE P.state
    IN  IF roll /\ st1 >= P.total_regs
        THEN [P |-> [P EXCEPT !.state = 0, !.phase = 0], update |-> TRUE,
              passes |-> passes + 1]
        ELSE With([P EXCEPT !.phase = IF roll THEN 0 ELSE ph1, !.state = st1],
                  LAMBDA P1 :
                    LET phase == IF P1.devices = 1 THEN P1.phase ELSE 0
                    IN  IF Reg[P1.state + 1].address[phase + 1] = nrg_mbs_reg_not_used
                        THEN NextRegisterLateRoll(P1, Reg, phase_count, passes + 1)
                        ELSE [P |-> P1, update |-> FALSE, passes |-> passes + 1])

RECURSIVE NextRegister(_, _, _, _)
\* do { phase++; ... } while (address[phase] == nrg_mbs_reg_not_used):
\* the cursor after the loop, whether EnergyUpdateTotal() was called, and
\* the number of passes through the loop body
NextRegister(P, Reg, phase_count, passes) ==
    LET ph1 == ToUInt8(P.phase + 1)
        roll == ph1 >= phase_count
        st1 == IF roll THEN ToUInt8(P.state + 1) ELSE P.state
    IN  IF roll /\ st1 >= P.total_regs
        THEN [P |-> [P EXCEPT !.state = 0, !.phase = 0], update |-> TRUE,
              passes |-> passes + 1]
        ELSE With([P EXCEPT !.phase = IF roll THEN 0 ELSE ph1, !.state = st1],
                  LAMBDA P1 :
                    LET phase == IF P1.devices = 1 THEN P1.phase ELSE 0
                    IN  IF Reg[P1.state + 1].address[phase + 1] = nrg_mbs_reg_not_used
                        THEN NextRegister(P1, Reg, phase_count, passes + 1)
                        ELSE [P |-> P1, update |-> FALSE, passes |-> passes + 1])

\* Faulty variant of LoopBlocked: the guard without the OTA flag
LoopBlockedMutex(P, ota) == P.mutex

\* if (NrgMbsParam.mutex || TasmotaGlobal.ota_state_flag) { return; }
LoopBlocked(P, ota) == P.mutex \/ ota

\* Faulty variant of LoopRequest: every request goes to the first device
LoopRequestFirstDevice(M) ==
    LET multi == M.P.devices > 1
        phase == IF multi THEN 0 ELSE M.P.phase
        reg == M.Reg[M.P.state + 1]
    IN  [dev |-> M.P.device_address[1], func |-> M.P.function,
         addr |-> reg.address[phase + 1], count |-> RegisterCount(reg.datatype),
         state |-> M.P.state, phase |-> M.P.phase]

\* The request of this tick: device, function, register address and count
LoopRequest(M) ==
    LET multi == M.P.devices > 1
        address == IF multi THEN M.P.phase ELSE 0
        phase == IF multi THEN 0 ELSE M.P.phase
        reg == M.Reg[M.P.state + 1]
    IN  [dev |-> M.P.device_address[address + 1], func |-> M.P.function,
         addr |-> reg.address[phase + 1], count |-> RegisterCount(reg.datatype),
         state |-> M.P.state, phase |-> M.P.phase]

\* register_count of ReceiveBuffer(buffer, register_count)
LoopReadCount(M) == RegisterCount(M.Reg[M.P.state + 1].datatype)

\* Faulty variant of SendDue: a request is sent in every tick
SendDueAlways(P, data_ready) == TRUE

\* Faulty variant of SendDue: a request is sent only after a response
SendDueReady(P, data_ready) == data_ready

\* if (0 == NrgMbsParam.retry || data_ready)
SendDue(P, data_ready) == P.retry = 0 \/ data_ready

\* Faulty variant of LoopReceive: an error resets the register's datatype
LoopReceiveRetype(M, error, buffer, garbage) ==
    IF error # 0
    THEN [M |-> [M EXCEPT !.Reg[M.P.state + 1].datatype = ENERGY_MODBUS_DATATYPE],
          update |-> FALSE, passes |-> 0]
    ELSE LET reg == M.Reg[M.P.state + 1]
             value == ScaleValue(DecodeBuffer(buffer, reg.datatype, garbage), reg.factor)
             M1 == StoreValue([M EXCEPT !.E.data_valid[M.P.phase + 1] = 0], value)
             nx == NextRegister(M.P, M.Reg, M.E.phase_count, 0)
         IN  [M |-> [M1 EXCEPT !.P = nx.P], update |-> nx.update, passes |-> nx.passes]

\* Faulty variant of LoopReceive: the cursor advances whatever the error is
LoopReceiveAdvance(M, error, buffer, garbage) ==
    LET nx == NextRegister(M.P, M.Reg, M.E.phase_count, 0)
    IN  [M |-> [M EXCEPT !.P = nx.P], update |-> nx.update, passes |-> nx.passes]

\* The data-ready branch: the memory after it and whether EnergyUpdateTotal ran
LoopReceive(M, error, buffer, garbage) ==
    IF error # 0 THEN [M |-> M, update |-> FALSE, passes |-> 0]
    ELSE LET reg == M.Reg[M.P.state + 1]
             value == ScaleValue(DecodeBuffer(buffer, reg.datatype, garbage), reg.factor)
             M1 == StoreValue([M EXCEPT !.E.data_valid[M.P.phase + 1] = 0], value)
             nx == NextRegister(M.P, M.Reg, M.E.phase_count, 0)
         IN  [M |-> [M1 EXCEPT !.P = nx.P], update |-> nx.update, passes |-> nx.passes]

\* Faulty variant of LoopSend: the request is always the one for the first
\* register
LoopSendFirstRegister(M, data_ready) ==
    IF SendDue(M.P, data_ready)
    THEN [M |-> [M EXCEPT !.P.retry = 1],
          sent |-> <<LoopRequest([M EXCEPT !.P.state = 0, !.P.phase = 0])>>]
    ELSE [M |-> [M EXCEPT !.P.retry = ToUInt8(M.P.retry - 1)], sent |-> << >>]

\* Faulty variants of LoopSend: the request goes out twice; the retry
\* budget is not reset by a send
LoopSendTwice(M, data_ready) ==
    IF SendDue(M.P, data_ready)
    THEN [M |-> [M EXCEPT !.P.retry = 1], sent |-> <<LoopRequest(M), LoopRequest(M)>>]
    ELSE [M |-> [M EXCEPT !.P.retry = ToUInt8(M.P.retry - 1)], sent |-> << >>]
LoopSendKeepRetry(M, data_ready) ==
    IF SendDue(M.P, data_ready)
    THEN [M |-> M, sent |-> <<LoopRequest(M)>>]
    ELSE [M |-> [M EXCEPT !.P.retry = ToUInt8(M.P.retry - 1)], sent |-> << >>]

\* The send-or-retry branch: the memory after it and the requests sent
LoopSend(M, data_ready) ==
    IF SendDue(M.P, data_ready)
    THEN [M |-> [M EXCEPT !.P.retry = 1], sent |-> <<LoopRequest(M)>>]
    ELSE [M |-> [M EXCEPT !.P.retry = ToUInt8(M.P.retry - 1)], sent |-> << >>]

\* Faulty variant of LoopRelease: the mutex stays set
LoopReleaseNot(P) == P

\* NrgMbsParam.mutex = 0 at the end of the loop
LoopRelease(P) == [P EXCEPT !.mutex = FALSE]

(***************************************************************************)
(* Bounds of the model                                                     *)
(***************************************************************************)
\* requests on the bus that the device has not answered yet
MaxWire == 2
\* responses waiting in the serial receive buffer
MaxRx == 1
\* EnergyUpdateTotal() calls counted (the counter saturates)
MaxUpdates == 2

(***************************************************************************)
(* Rule files                                                              *)
(***************************************************************************)
NoRegs == [i \in 1..NRG_MBS_MAX_REGS |-> EAbsent]
NoUser == [t |-> "none", items |-> << >>]
Config(address, function, regs, user) ==
    [Address |-> address, Function |-> function, Reg |-> regs, User |-> user]
GoodItem(R, T, F) == UserItem(TRUE, R, T, F, None, Num(1), Num(2), None, None)
\* a user entry without "J": it is dropped
NoNameItem(R, T, F) == UserItem(TRUE, R, T, F, None, None, Num(2), None, None)

\* {"Address":1,"Function":4,"Voltage":0,"Current":{"R":6,"T":4,"F":-1}}
CfgSingle ==
    Config(Num(1), Num(4),
           [NoRegs EXCEPT ![1] = ENum(0), ![2] = EObj(Num(6), Num(4), Num(-1), None)],
           NoUser)
\* {"Power":{"R":[12,14],"T":2}}: no Voltage, two phases
CfgNoVoltage ==
    Config(None, None, [NoRegs EXCEPT ![3] = EObj(Arr(<<12, 14>>), Num(2), None, None)],
           NoUser)
\* {"Address":[1,2],"Function":3,"Current":{"R":1,"T":8,"F":-3}}: two devices
CfgDevices ==
    Config(Arr(<<1, 2>>), Num(3),
           [NoRegs EXCEPT ![2] = EObj(Num(1), Num(8), Num(-3), None)], NoUser)
\* {"Voltage":{"R":0,"T":1,"M":10},"User":[{"R":72,"T":6,"F":1,"J":..,"G":..}]}
CfgUser ==
    Config(Num(1), None,
           [NoRegs EXCEPT ![1] = EObj(Num(0), Num(1), None, Num(10))],
           [t |-> "arr", items |-> <<GoodItem(Num(72), Num(6), Num(1))>>])

\* The rule files and calloc() outcomes the poll loop is run with
LoopInputs ==
    {<<CfgSingle, "ok">>, <<CfgNoVoltage, "ok">>, <<CfgDevices, "ok">>,
     <<CfgUser, "ok">>, <<CfgUser, "noreg">>, <<CfgUser, "nouser">>}

\* Payload bytes buffer[3..6] the meter holds for a register, and the error
\* code of a failed exchange (9 = Crc error)
MeterData(req) == <<(67 + req.dev) % 256, req.addr % 256, 51, 52>>
ModbusErrors == {9}
\* what an uninitialised float may hold
GarbageValues == {NAN, Zero, Value("num", 1, 0, One32, One32)}

(***************************************************************************)
(* State                                                                   *)
(***************************************************************************)
VARIABLES
    cfg,                  \* the rule file "MODBUS"
    heap,                 \* which calloc() fails
    bpc,                  \* position of EnergyModbusSnsInit / ReadRegisters
    names,                \* loop index over the built-in names
    user_index,           \* position in the "User" array
    parse,                \* locals of ReadRegisters: add_index, result, pointers
    NrgMbsParam, NrgMbsReg, NrgMbsUser, Energy, Settings,
    EnergyModbus,         \* the transport: created, begun, wire, rx
    TasmotaGlobal,        \* ota_state_flag, energy_driver
    ticker_energy_modbus, \* the 200 ms ticker is attached
    loop_pc,              \* "idle", or "delay": a tick is at its final delay(0)
    update_total,         \* calls of EnergyUpdateTotal()
    tick,                 \* what the last invocation of the loop did
    started,              \* a tick has run
    cycle, lastCycle,     \* cursor positions requested in this / the last cycle
    clean                 \* every request so far was answered without error,
                          \* each answer as long as the loop expected it

progVars == <<NrgMbsParam, NrgMbsReg, NrgMbsUser, Energy, Settings, parse>>
buildVars == <<cfg, heap, bpc, names, user_index>>
hostVars == <<TasmotaGlobal, ticker_energy_modbus, update_total>>
histVars == <<tick, started, cycle, lastCycle, clean>>
vars == <<cfg, heap, bpc, names, user_index, parse, NrgMbsParam, NrgMbsReg,
          NrgMbsUser, Energy, Settings, EnergyModbus, TasmotaGlobal,
          ticker_energy_modbus, loop_pc, update_total, tick, started, cycle,
          lastCycle, clean>>

Mem ==
    [P |-> NrgMbsParam, Reg |-> NrgMbsReg, RegNull |-> parse.RegNull,
     User |-> NrgMbsUser, UserNull |-> parse.UserNull, E |-> Energy,
     S |-> Settings, add_index |-> parse.add_index, stop |-> parse.stop,
     res |-> parse.res]

SetMem(M) ==
    /\ NrgMbsParam' = M.P
    /\ NrgMbsReg' = M.Reg
    /\ NrgMbsUser' = M.User
    /\ Energy' = M.E
    /\ Settings' = M.S
    /\ parse' = [RegNull |-> M.RegNull, UserNull |-> M.UserNull,
                 add_index |-> M.add_index, stop |-> M.stop, res |-> M.res]

NoRequest == [dev |-> 0, func |-> 0, addr |-> 0, count |-> 0, state |-> 0, phase |-> 0]
NoTick ==
    [skipped |-> FALSE, ran |-> FALSE, first |-> FALSE, data_ready |-> FALSE,
     error |-> 0, ok |-> FALSE, calls |-> << >>, sent |-> << >>,
     update |-> FALSE, retry |-> 0, passes |-> 0, read_count |-> 0]

InitWith(inputs) ==
    /\ \E input \in inputs : cfg = input[1] /\ heap = input[2]
    /\ bpc = "init"
    /\ names = 0
    /\ user_index = 1
    /\ parse = [RegNull |-> TRUE, UserNull |-> TRUE, add_index |-> 0,
                stop |-> FALSE, res |-> "run"]
    /\ NrgMbsParam = Param0
    /\ NrgMbsReg = << >>
    /\ NrgMbsUser = << >>
    /\ Energy = Energy0
    /\ Settings = Settings0
    /\ EnergyModbus = [created |-> FALSE, begun |-> FALSE, wire |-> << >>, rx |-> << >>]
    /\ TasmotaGlobal = [ota_state_flag |-> FALSE, energy_driver |-> "XNRG_29"]
    /\ ticker_energy_modbus = FALSE
    /\ loop_pc = "idle"
    /\ update_total = 0
    /\ tick = NoTick
    /\ started = FALSE
    /\ cycle = << >>
    /\ lastCycle = << >>
    /\ clean = TRUE

Init == InitWith(LoopInputs)

(***************************************************************************)
(* EnergyModbusSnsInit -> EnergyModbusReadRegisters, stage by stage        *)
(***************************************************************************)
loopVars == <<EnergyModbus, TasmotaGlobal, ticker_energy_modbus, loop_pc,
              update_total, tick, started, cycle, lastCycle, clean>>

ReadRegistersStart ==
    /\ bpc = "init"
    /\ LET M == ReadRegistersInit(Mem, cfg, heap)
       IN  /\ SetMem(M)
           /\ bpc' = IF M.res = "fail" THEN "begin" ELSE "address"
    /\ UNCHANGED <<cfg, heap, names, user_index, loopVars>>

ReadAddressKey ==
    /\ bpc = "address"
    /\ SetMem(ReadRegistersAddress(Mem, cfg))
    /\ bpc' = "function"
    /\ UNCHANGED <<cfg, heap, names, user_index, loopVars>>

ReadFunctionKey ==
    /\ bpc = "function"
    /\ SetMem(ReadRegistersFunction(Mem, cfg))
    /\ bpc' = "names"
    /\ UNCHANGED <<cfg, heap, names, user_index, loopVars>>

ReadNameKey ==
    /\ bpc = "names"
    /\ names < NRG_MBS_MAX_REGS
    /\ SetMem(ReadRegistersName(Mem, cfg, names))
    /\ names' = names + 1
    /\ bpc' = IF names + 1 < NRG_MBS_MAX_REGS THEN "names"
              ELSE IF cfg.User.t = "none" THEN "datatype" ELSE "user"
    /\ UNCHANGED <<cfg, heap, user_index, loopVars>>

ReadUserKey ==
    /\ bpc = "user"
    /\ user_index <= Len(cfg.User.items)
    /\ LET M == ReadRegistersUser(Mem, cfg, user_index)
       IN  /\ SetMem(M)
           /\ bpc' = IF M.res = "crash" THEN "crash" ELSE "user"
    /\ user_index' = user_index + 1
    /\ UNCHANGED <<cfg, heap, names, loopVars>>

ReadUserEnd ==
    /\ bpc = "user"
    /\ user_index > Len(cfg.User.items)
    /\ SetMem(ReadRegistersUserEnd(Mem, cfg))
    /\ bpc' = "datatype"
    /\ UNCHANGED <<cfg, heap, names, user_index, loopVars>>

ReadDatatypes ==
    /\ bpc = "datatype"
    /\ SetMem(ReadRegistersDatatype(Mem))
    /\ bpc' = "devices"
    /\ UNCHANGED <<cfg, heap, names, user_index, loopVars>>

ReadDevices ==
    /\ bpc = "devices"
    /\ SetMem(ReadRegistersDevices(Mem))
    /\ bpc' = "begin"
    /\ UNCHANGED <<cfg, heap, names, user_index, loopVars>>

\* Faulty variant of SnsInitAttach: the ticker is attached whatever Begin()
\* returns
SnsInitAttachAlways(result) == TRUE

\* if (result) { ...; ticker_energy_modbus.attach_ms(200, EnergyModbusLoop); return; }
SnsInitAttach(result) == result # 0

\* EnergyModbusSnsInit after EnergyModbusRegisters(): result is Begin()'s
SnsInit ==
    /\ bpc = "begin"
    /\ \E result \in 0..2 :
        IF parse.res = "ok"
        THEN /\ EnergyModbus' = [EnergyModbus EXCEPT !.created = TRUE,
                                                     !.begun = (result # 0)]
             /\ ticker_energy_modbus' = SnsInitAttach(result)
             /\ TasmotaGlobal' = IF SnsInitAttach(result) THEN TasmotaGlobal
                                 ELSE [TasmotaGlobal EXCEPT !.energy_driver = "ENERGY_NONE"]
        ELSE /\ TasmotaGlobal' = [TasmotaGlobal EXCEPT !.energy_driver = "ENERGY_NONE"]
             /\ UNCHANGED <<EnergyModbus, ticker_energy_modbus>>
    /\ bpc' = "done"
    /\ UNCHANGED <<cfg, heap, names, user_index, progVars, loop_pc, update_total,
                   histVars>>

(***************************************************************************)
(* The transport (TasmotaModbus) as the loop uses it: requests sent wait   *)
(* on the wire until the device answers or the exchange is lost; answers   *)
(* wait in rx until the loop reads them.                                   *)
(***************************************************************************)
ReceiveReady(mb) == mb.rx # << >>

\* ReceiveBuffer(buffer, register_count): takes the oldest response
ReceiveBuffer(mb) == [mb EXCEPT !.rx = Tail(mb.rx)]

\* Send(device, function, address, count); a request older than the MaxWire
\* newest ones gets no answer any more
Send(mb, req) ==
    LET w == Append(mb.wire, req)
    IN  [mb EXCEPT !.wire = IF Len(w) > MaxWire THEN Tail(w) ELSE w]

RECURSIVE SendAll(_, _)
SendAll(mb, reqs) ==
    IF reqs = << >> THEN mb ELSE SendAll(Send(mb, Head(reqs)), Tail(reqs))

(***************************************************************************)
(* EnergyModbusLoop, called by the ticker every 200 ms                     *)
(***************************************************************************)
\* The loop returns at its first line: mutex set or OTA in progress
LoopSkip ==
    /\ ticker_energy_modbus
    /\ LoopBlocked(NrgMbsParam, TasmotaGlobal.ota_state_flag)
    /\ tick' = [NoTick EXCEPT !.skipped = TRUE]
    /\ UNCHANGED <<buildVars, progVars, EnergyModbus, hostVars, loop_pc,
                   started, cycle, lastCycle, clean>>

\* The loop runs from mutex = 1 to the delay(0) before mutex = 0
LoopRun ==
    /\ ticker_energy_modbus
    /\ ~LoopBlocked(NrgMbsParam, TasmotaGlobal.ota_state_flag)
    /\ \E garbage \in GarbageValues,
          M0 \in {[Mem EXCEPT !.P.mutex = TRUE]},
          data_ready \in {ReceiveReady(EnergyModbus)} :
      \E resp \in {IF data_ready THEN Head(EnergyModbus.rx)
                    ELSE [req |-> NoRequest, error |-> 0, buffer |-> << >>]} :
      \E rcv \in {IF data_ready
                   THEN LoopReceive(M0, resp.error, resp.buffer, garbage)
                   ELSE [M |-> M0, update |-> FALSE, passes |-> 0]} :
      \E snd \in {LoopSend(rcv.M, data_ready)} :
        LET mb1 == IF data_ready THEN ReceiveBuffer(EnergyModbus) ELSE EnergyModbus
            ok == data_ready /\ resp.error = 0
            base == IF rcv.update THEN << >> ELSE cycle
            pos == <<snd.sent[1].state, snd.sent[1].phase>>
        IN  /\ SetMem(snd.M)
            /\ EnergyModbus' = SendAll(mb1, snd.sent)
            /\ update_total' = IF rcv.update THEN Min(update_total + 1, MaxUpdates)
                               ELSE update_total
            /\ tick' = [skipped |-> FALSE, ran |-> TRUE, first |-> ~started,
                        data_ready |-> data_ready,
                        error |-> IF data_ready THEN resp.error ELSE 0,
                        ok |-> ok,
                        calls |-> <<"ReceiveReady">>
                                  \o (IF data_ready THEN <<"ReceiveBuffer">> ELSE << >>)
                                  \o [i \in 1..Len(snd.sent) |-> "Send"],
                        sent |-> snd.sent, update |-> rcv.update,
                        retry |-> NrgMbsParam.retry, passes |-> rcv.passes,
                        read_count |-> IF data_ready THEN LoopReadCount(M0) ELSE 0]
            /\ cycle' = IF snd.sent = << >> THEN base
                        ELSE IF base # << >> /\ base[Len(base)] = pos THEN base
                        ELSE Append(base, pos)
            /\ lastCycle' = IF rcv.update THEN cycle ELSE lastCycle
            /\ clean' = (clean
                         /\ (Len(mb1.wire) + Len(snd.sent) <= MaxWire)
                         /\ (data_ready =>
                              (resp.req.count = LoopReadCount(M0))))
    /\ loop_pc' = "delay"
    /\ started' = TRUE
    /\ UNCHANGED <<buildVars, TasmotaGlobal, ticker_energy_modbus>>

EnergyModbusLoop == LoopSkip \/ LoopRun

\* delay(0); NrgMbsParam.mutex = 0; return
LoopReturn ==
    /\ loop_pc = "delay"
    /\ NrgMbsParam' = LoopRelease(NrgMbsParam)
    /\ loop_pc' = "idle"
    /\ UNCHANGED <<buildVars, NrgMbsReg, NrgMbsUser, Energy, Settings, parse,
                   EnergyModbus, hostVars, histVars>>

(***************************************************************************)
(* Environment: the meter on the bus and the host                          *)
(***************************************************************************)
\* The device answers the oldest request, with payload bytes or an error
DeviceRespond ==
    /\ EnergyModbus.wire # << >>
    /\ Len(EnergyModbus.rx) < MaxRx
    /\ \E error \in {0} \cup ModbusErrors :
        /\ EnergyModbus' = [EnergyModbus EXCEPT
                               !.wire = Tail(@),
                               !.rx = Append(@, [req |-> Head(EnergyModbus.wire),
                                                 error |-> error,
                                                 buffer |-> MeterData(Head(EnergyModbus.wire))])]
        /\ clean' = (clean /\ error = 0)
    /\ UNCHANGED <<buildVars, progVars, hostVars, loop_pc, tick, started, cycle,
                   lastCycle>>

\* The request or its answer is lost
DeviceSilent ==
    /\ EnergyModbus.wire # << >>
    /\ EnergyModbus' = [EnergyModbus EXCEPT !.wire = Tail(@)]
    /\ clean' = FALSE
    /\ UNCHANGED <<buildVars, progVars, hostVars, loop_pc, tick, started, cycle,
                   lastCycle>>

\* A firmware upload starts / ends
OtaStart ==
    /\ bpc = "done"
    /\ ~TasmotaGlobal.ota_state_flag
    /\ TasmotaGlobal' = [TasmotaGlobal EXCEPT !.ota_state_flag = TRUE]
    /\ UNCHANGED <<buildVars, progVars, EnergyModbus, ticker_energy_modbus,
                   update_total, loop_pc, histVars>>

OtaEnd ==
    /\ TasmotaGlobal.ota_state_flag
    /\ TasmotaGlobal' = [TasmotaGlobal EXCEPT !.ota_state_flag = FALSE]
    /\ UNCHANGED <<buildVars, progVars, EnergyModbus, ticker_energy_modbus,
                   update_total, loop_pc, histVars>>

Next ==
    \/ ReadRegistersStart
    \/ ReadAddressKey
    \/ ReadFunctionKey
    \/ ReadNameKey
    \/ ReadUserKey
    \/ ReadUserEnd
    \/ ReadDatatypes
    \/ ReadDevices
    \/ SnsInit
    \/ LoopSkip
    \/ LoopRun
    \/ LoopReturn
    \/ DeviceRespond
    \/ DeviceSilent
    \/ OtaStart
    \/ OtaEnd

Spec == Init /\ [][Next]_vars

(***************************************************************************)
(* Properties of the poll loop                                             *)
(***************************************************************************)
Cursor == <<NrgMbsParam.state, NrgMbsParam.phase>>
Polling == bpc = "done" /\ ticker_energy_modbus

\* The address the scan tests for slot (r, p): phase slot p of register r
\* with one device, phase slot 0 with several
SlotAddress(r, p) ==
    NrgMbsReg[r + 1].address[(IF NrgMbsParam.devices = 1 THEN p ELSE 0) + 1]
SlotUsed(pos) == SlotAddress(pos[1], pos[2]) # nrg_mbs_reg_not_used

\* All (register, phase) pairs, register ascending, phase ascending within
AllSlots ==
    [i \in 1..(NrgMbsParam.total_regs * Energy.phase_count) |->
        <<(i - 1) \div Energy.phase_count, (i - 1) % Energy.phase_count>>]
\* One scan cycle: the cursor's start (0, 0), then every other pair in use
ScanOrder == <<AllSlots[1]>> \o SelectSeq(Tail(AllSlots), SlotUsed)
IsPrefix(s, t) == Len(s) <= Len(t) /\ s = SubSeq(t, 1, Len(s))
Count(seq, x) == Cardinality({i \in 1..Len(seq) : seq[i] = x})

\* C1: the positions requested between two EnergyUpdateTotal() calls are
\* exactly the pairs in use, each once, register ascending and phase
\* ascending within a register, the same in every cycle; and
\* EnergyUpdateTotal() is called only by the step that wraps the cursor from
\* the last register to register 0.
C1_ScanCycle ==
    Polling =>
        /\ IsPrefix(cycle, ScanOrder)
        /\ update_total > 0 => lastCycle = ScanOrder
        /\ \A i \in 2..Len(AllSlots) :
               SlotUsed(AllSlots[i]) /\ update_total > 0 =>
                   Count(lastCycle, AllSlots[i]) = 1
        /\ tick.update => tick.ok /\ Cursor = <<0, 0>> /\ cycle = <<Cursor>>
C1_Witness ==
    /\ Polling /\ clean
    /\ update_total = MaxUpdates
    /\ Len(lastCycle) >= 3
    /\ lastCycle = ScanOrder

\* C2 (as claimed): no request sent by a tick carries the not-used address
C2_NeverRequestsUnused ==
    \A i \in 1..Len(tick.sent) : tick.sent[i].addr # nrg_mbs_reg_not_used

\* C3: a tick calls Send at most once and ReceiveBuffer at most once
C3_OneSendOneRead ==
    /\ Count(tick.calls, "Send") <= 1
    /\ Count(tick.calls, "ReceiveBuffer") <= 1
    /\ Len(tick.sent) <= 1
C3_Witness ==
    /\ tick.ran
    /\ tick.calls = <<"ReceiveReady", "ReceiveBuffer", "Send">>

\* C4: an invocation of the loop while the mutex is set or the OTA flag is
\* raised calls nothing on the transport and leaves the cursor, the retry
\* budget, the mutex and every sink as they were
C4_SkippedTick ==
    [][(EnergyModbusLoop
          /\ (NrgMbsParam.mutex \/ TasmotaGlobal.ota_state_flag))
        => /\ tick'.calls = << >>
           /\ UNCHANGED <<NrgMbsParam, NrgMbsUser, Energy, EnergyModbus,
                          update_total>>]_vars
C4_Witness ==
    /\ tick.skipped
    /\ NrgMbsParam.mutex
    /\ loop_pc = "delay"
    /\ EnergyModbus.rx # << >>

\* C5: the mutex is set only while a tick is between its first line and its
\* return, whichever path the tick took
C5_MutexReleased == (loop_pc = "idle") => ~NrgMbsParam.mutex
C5_Witness ==
    /\ loop_pc = "idle"
    /\ tick.ran /\ tick.error # 0
    /\ ~NrgMbsParam.mutex

\* C6: a tick that reads a response with a non-zero error code leaves the
\* cursor, the sinks and the user value cache unchanged and does not call
\* EnergyUpdateTotal()
C6_ErrorKeepsCursor ==
    [][(LoopRun /\ tick'.error # 0)
        => /\ Cursor' = Cursor
           /\ UNCHANGED <<Energy, NrgMbsUser, update_total>>
           /\ ~tick'.update]_vars
C6_Witness ==
    /\ tick.ran /\ tick.data_ready /\ tick.error # 0
    /\ Cursor # <<0, 0>>

\* C7 (as claimed): a tick sends and sets retry to 1 exactly when it is the
\* first tick or it has consumed a response without error; any other tick
\* decrements retry and sends nothing
C7_SendsOnFirstOrConsumed ==
    tick.ran =>
        IF tick.first \/ tick.ok
        THEN Len(tick.sent) = 1 /\ NrgMbsParam.retry = 1
        ELSE tick.sent = << >> /\ NrgMbsParam.retry = tick.retry - 1

\* C7 (amended): a tick sends and sets retry to 1 exactly when the retry
\* budget was 0 on entry or a response was ready, error or not; any other
\* tick decrements retry and sends nothing
C7_SendsOnReadyOrDrained ==
    tick.ran =>
        IF tick.retry = 0 \/ tick.data_ready
        THEN Len(tick.sent) = 1 /\ NrgMbsParam.retry = 1
        ELSE tick.sent = << >> /\ NrgMbsParam.retry = tick.retry - 1
C7_Witness ==
    /\ tick.ran /\ ~tick.first /\ ~tick.data_ready
    /\ tick.retry = 0
    /\ Len(tick.sent) = 1

(***************************************************************************)
(* The loop under its scheduling: the ticker calls it every 200 ms, a tick *)
(* that runs reaches its return, and a firmware upload ends.               *)
(***************************************************************************)
SpecLive ==
    /\ Init
    /\ [][Next]_vars
    /\ WF_vars(LoopReturn)
    /\ WF_vars(OtaEnd)
    /\ SF_vars(LoopRun)

\* A tick has just sent the request for the position the cursor is at
Sending ==
    /\ loop_pc = "delay"
    /\ tick.ran
    /\ tick.sent = <<LoopRequest(Mem)>>

\* C8: the cursor moves and EnergyUpdateTotal() is called only by a tick
\* that read an error-free response, so errors and silence leave the cursor
\* where it is; and whatever the device does, the loop sends the request
\* for the position of the cursor again and again
C8_ErrorsNeverFatal ==
    /\ [][(Cursor' # Cursor \/ update_total' # update_total)
            => (LoopRun /\ tick'.ok)]_vars
    /\ [](tick.update => tick.ok)
    /\ [](Polling => <>Sending)
C8_Witness ==
    /\ Sending
    /\ tick.error # 0
    /\ Cursor # <<0, 0>>
    /\ update_total = 0

\* The sink of slot (r, p), the request the loop sends for it and the value
\* the meter's answer to that request decodes and scales to
SinkValue(r, p) ==
    IF r < NRG_MBS_MAX_REGS THEN Energy[SinkNames[r + 1]][p + 1]
    ELSE NrgMbsUser[r - NRG_MBS_MAX_REGS + 1].data[p + 1]
RequestFor(r, p) == LoopRequest([Mem EXCEPT !.P.state = r, !.P.phase = p])
ExpectedValue(r, p) ==
    ScaleValue(DecodeBuffer(MeterData(RequestFor(r, p)), NrgMbsReg[r + 1].datatype, NAN),
               NrgMbsReg[r + 1].factor)

\* C9 (as claimed): when every request has been answered without error and
\* EnergyUpdateTotal() has just been called for the first time, the sink of
\* every pair in use holds the decoded and scaled answer to that pair's
\* request (stated for schemas whose slot (0, 0) is in use)
C9_FirstCycleValues ==
    (/\ Polling /\ clean /\ SlotUsed(<<0, 0>>)
     /\ tick.ran /\ tick.update /\ update_total = 1) =>
        \A i \in 1..Len(AllSlots) :
            SlotUsed(AllSlots[i]) =>
                SinkValue(AllSlots[i][1], AllSlots[i][2])
                    = ExpectedValue(AllSlots[i][1], AllSlots[i][2])

(***************************************************************************)
(* The schema builder alone, over a family of rule files: every form of    *)
(* the Address key, one built-in quantity of every form under each of the  *)
(* nine names, a second quantity and a User list.                          *)
(***************************************************************************)
BuildAddresses ==
    {None, Num(1), Arr(<< >>), Arr(<<1>>), Arr(<<1, 2>>), Arr(<<1, 2, 3>>),
     Arr(<<1, 2, 3, 4>>)}
BuildEntries ==
    {ENum(5), EArr(<<1, 2>>), EArr(<<1, 2, 3>>),
     EObj(Num(7), Num(3), Num(-1), None), EObj(Arr(<<1, 2, 3>>), None, None, None),
     EObj(None, Num(1), None, None)}
BuildSeconds == {EAbsent, ENum(9)}
BuildUsers ==
    {NoUser,
     [t |-> "arr", items |-> <<GoodItem(Num(72), Num(6), Num(1))>>],
     [t |-> "arr", items |-> <<GoodItem(Arr(<<72, 74, 76>>), None, None)>>],
     [t |-> "arr", items |-> <<NoNameItem(Arr(<<72, 74>>), None, None)>>]}
BuildConfigs ==
    {Config(a, None, [[NoRegs EXCEPT ![2] = e2] EXCEPT ![k] = e], u) :
        a \in BuildAddresses, k \in 1..NRG_MBS_MAX_REGS, e \in BuildEntries,
        e2 \in BuildSeconds, u \in BuildUsers}
BuildInputs == {<<c, "ok">> : c \in BuildConfigs}

NextBuild ==
    \/ ReadRegistersStart
    \/ ReadAddressKey
    \/ ReadFunctionKey
    \/ ReadNameKey
    \/ ReadUserKey
    \/ ReadUserEnd
    \/ ReadDatatypes
    \/ ReadDevices
    \/ SnsInit

SpecBuild == InitWith(BuildInputs) /\ [][NextBuild]_vars

\* The forms of the keys of the rule file
ListOfThree(tok) == tok.t = "arr" /\ Len(tok.a) = 3
EntryListOfThree(e) == IF e.t = "obj" THEN ListOfThree(e.R) ELSE ListOfThree(e)
EntryScalar(e) == IF e.t = "obj" THEN e.R.t # "arr" ELSE e.t # "arr"
MultiAddress == cfg.Address.t = "arr" /\ Len(cfg.Address.a) > 1
Built == bpc \in {"begin", "done"} /\ parse.res = "ok"

\* C10: after a successful build, a rule file with a 3-element address list
\* on a built-in quantity and no multi-element Address has phase_count = 3
\* and devices = 1; a rule file with a 3-element Address and only scalar
\* register addresses has phase_count = 3 and devices = 3
C10_ModeInference ==
    Built =>
        /\ ((\E k \in 1..NRG_MBS_MAX_REGS : EntryListOfThree(cfg.Reg[k]))
             /\ ~MultiAddress)
            => (Energy.phase_count = 3 /\ NrgMbsParam.devices = 1)
        /\ (/\ ListOfThree(cfg.Address)
             /\ \A k \in 1..NRG_MBS_MAX_REGS : EntryScalar(cfg.Reg[k])
             /\ \A i \in 1..Len(cfg.User.items) : cfg.User.items[i].R.t # "arr")
            => (Energy.phase_count = 3 /\ NrgMbsParam.devices = 3)
C10_Witness ==
    /\ Built
    /\ ListOfThree(cfg.Address)
    /\ cfg.Reg[NRG_MBS_FREQUENCY + 1].t = "obj"
    /\ \A k \in 1..NRG_MBS_MAX_REGS : EntryScalar(cfg.Reg[k])
    /\ cfg.User.t = "arr" /\ cfg.User.items[1].R.t = "num"
    /\ NrgMbsParam.devices = 3
    /\ NrgMbsParam.total_regs = NRG_MBS_MAX_REGS + 1

\* An entry that supplies more than one register address
SuppliesMany(tok) == tok.t = "arr" /\ Len(tok.a) > 1
EntryMany(e) == IF e.t = "obj" THEN SuppliesMany(e.R) ELSE SuppliesMany(e)
\* the entries of the User list that the builder reads: those before the
\* first element that is no object
UserRead(i) ==
    /\ i \in 1..Len(cfg.User.items)
    /\ \A j \in 1..i : cfg.User.items[j].obj
AnyEntryMany ==
    \/ \E k \in 1..NRG_MBS_MAX_REGS : EntryMany(cfg.Reg[k])
    \/ \E i \in 1..Len(cfg.User.items) :
            UserRead(i) /\ SuppliesMany(cfg.User.items[i].R)

\* C11: after a successful build, if any built-in or user entry supplies
\* more than one address then devices = 1 whatever the Address key holds;
\* and if devices > 1 then phase_count = devices and no register entry has
\* a configured address in phase slot 1 or 2
C11_ModesExclusive ==
    Built =>
        /\ AnyEntryMany => NrgMbsParam.devices = 1
        /\ NrgMbsParam.devices > 1 =>
            /\ Energy.phase_count = NrgMbsParam.devices
            /\ \A i \in 1..Len(NrgMbsReg) :
                    /\ NrgMbsReg[i].address[2] = nrg_mbs_reg_not_used
                    /\ NrgMbsReg[i].address[3] = nrg_mbs_reg_not_used
C11_Witness ==
    /\ Built
    /\ ListOfThree(cfg.Address)
    /\ \A k \in 1..NRG_MBS_MAX_REGS : ~EntryMany(cfg.Reg[k])
    /\ Len(cfg.User.items) = 1
    /\ SuppliesMany(cfg.User.items[1].R)
    /\ cfg.User.items[1].J.t = "none"
    /\ NrgMbsParam.devices = 1
    /\ Energy.phase_count = 2

(***************************************************************************)
(* The schema builder over User lists and over the fields of an entry:     *)
(* every list of up to MaxUserItems user entries of each form, with and    *)
(* without a failing calloc(), and every T, F and M of FieldTypes and      *)
(* FieldScales in a built-in entry and in a user entry.                    *)
(***************************************************************************)
\* longest User list
MaxUserItems == 3
\* largest datatype code "T" tried (and 100)
MaxType == 10

\* {"R":72,"T":6,"F":1,"J":..,"G":..,"U":..,"D":2}
ItemFull == UserItem(TRUE, Num(72), Num(6), Num(1), None, Num(1), Num(2), Num(3), Num(2))
\* {"R":[80,82],"J":..,"G":..}
ItemPlain == UserItem(TRUE, Arr(<<80, 82>>), None, None, None, Num(4), Num(5), None, None)
\* {"R":[90,92,94],"T":2,"F":-2,"J":..}: no "G"
ItemNoG == UserItem(TRUE, Arr(<<90, 92, 94>>), Num(2), Num(-2), None, Num(6), None, None, None)
\* {"R":96,"T":4,"M":100,"G":..}: no "J"
ItemNoJ == UserItem(TRUE, Num(96), Num(4), None, Num(100), None, Num(7), None, None)
\* {"J":..,"G":..}: no "R"
ItemNoR == UserItem(TRUE, None, None, None, None, Num(8), Num(9), None, None)
\* an element of the list that is no object
ItemNoObject == UserItem(FALSE, None, None, None, None, None, None, None, None)
EntryItems == {ItemFull, ItemPlain, ItemNoG, ItemNoJ, ItemNoR, ItemNoObject}

UserLists ==
    {[t |-> "arr", items |-> s] :
        s \in UNION {[1..n -> EntryItems] : n \in 1..MaxUserItems}}
ListConfigs ==
    {Config(Num(1), None, [NoRegs EXCEPT ![1] = ENum(0), ![NRG_MBS_MAX_REGS] = e], u) :
        e \in {EAbsent, EObj(Num(20), Num(NRG_DT_MAX), None, None)}, u \in UserLists}

FieldTypes == {None, Num(100)} \cup {Num(t) : t \in 0..MaxType}
\* "F" and "M" of one entry
FieldScales ==
    {<<None, None>>, <<Num(-5), None>>, <<Num(-4), None>>, <<Num(4), None>>,
     <<Num(5), None>>, <<None, Num(1)>>, <<None, Num(100)>>,
     <<None, Num(100000)>>, <<Num(2), Num(10)>>}
FieldConfigs ==
    {Config(Num(1), None,
            [NoRegs EXCEPT ![NRG_MBS_MAX_REGS] = EObj(Num(20), T, sc[1], sc[2])],
            NoUser) : T \in FieldTypes, sc \in FieldScales}
    \cup
    {Config(Num(1), None, [NoRegs EXCEPT ![1] = ENum(0)],
            [t |-> "arr", items |->
                <<UserItem(TRUE, Num(72), T, sc[1], sc[2], Num(1), Num(2), None, None)>>]) :
        T \in FieldTypes, sc \in FieldScales}

EntryInputs ==
    {<<c, h>> : c \in ListConfigs, h \in {"ok", "noreg", "nouser"}}
    \cup {<<c, "ok">> : c \in FieldConfigs}

SpecEntries == InitWith(EntryInputs) /\ [][NextBuild]_vars

\* What a user entry on its own asks for: its register and its names
Survives(item) == item.obj /\ item.R.t # "none" /\ item.J.t # "none" /\ item.G.t # "none"
\* the elements of the User list before the first one that is no object
UserPrefix ==
    SubSeq(cfg.User.items, 1,
           CHOOSE n \in 0..Len(cfg.User.items) :
               /\ \A j \in 1..n : cfg.User.items[j].obj
               /\ n < Len(cfg.User.items) => ~cfg.User.items[n + 1].obj)
Survivors == SelectSeq(UserPrefix, Survives)
OwnRegister(item) ==
    ReadTypeFactor([DefaultRegister EXCEPT
                       !.address = ReadAddress(DefaultRegister.address, item.R).address],
                   item.T, item.F, item.M)
OwnUser(item) ==
    [json_name |-> item.J.n, gui_name |-> item.G.n,
     gui_unit |-> IF item.U.t # "none" THEN item.U.n ELSE -1,
     resolution |-> IF item.D.t # "none" THEN item.D.n ELSE ENERGY_MODBUS_DECIMALS]
OwnPhases(tok) ==
    IF tok.t = "arr" THEN Min(Len(tok.a), ENERGY_MAX_PHASES)
    ELSE IF tok.t = "none" THEN 0 ELSE 1
EntryPhases(e) == IF e.t = "obj" THEN OwnPhases(e.R) ELSE OwnPhases(e)
\* a User list of objects with "R", exactly one of them without "G" or "J"
OneDropped ==
    /\ cfg.User.t = "arr"
    /\ \A i \in 1..Len(cfg.User.items) :
           cfg.User.items[i].obj /\ cfg.User.items[i].R.t # "none"
    /\ Len(Survivors) = Len(cfg.User.items) - 1

\* C12: a User list in which one entry lacks G (or J) gives one user
\* register less, every surviving entry has the addresses, datatype, factor,
\* names and resolution of its own object (defaults where it gives none) at
\* consecutive indices in list order, and the phase count is that of the
\* built-in and the surviving entries
C12_DroppedUserEntry ==
    (Built /\ heap = "ok" /\ OneDropped) =>
        /\ NrgMbsParam.user_adds = Len(cfg.User.items) - 1
        /\ NrgMbsParam.total_regs = NRG_MBS_MAX_REGS + Len(cfg.User.items) - 1
        /\ \A j \in 1..Len(Survivors) :
            /\ NrgMbsReg[NRG_MBS_MAX_REGS + j] = OwnRegister(Survivors[j])
            /\ NrgMbsUser[j].json_name = OwnUser(Survivors[j]).json_name
            /\ NrgMbsUser[j].gui_name = OwnUser(Survivors[j]).gui_name
            /\ NrgMbsUser[j].gui_unit = OwnUser(Survivors[j]).gui_unit
            /\ NrgMbsUser[j].resolution = OwnUser(Survivors[j]).resolution
        /\ \A p \in 2..ENERGY_MAX_PHASES :
            Energy.phase_count >= p =>
                \/ \E k \in 1..NRG_MBS_MAX_REGS : EntryPhases(cfg.Reg[k]) >= p
                \/ \E j \in 1..Len(Survivors) : OwnPhases(Survivors[j].R) >= p

\* a calloc() of the build fails: the one for the register array, or the one
\* for the user array, which is called when the rule has a "User" key
AllocFailed == heap = "noreg" \/ (heap = "nouser" /\ cfg.User.t # "none")

\* C13: when the allocation of the register array or of the user array
\* fails, the build ends reporting failure, the counts, arrays and phase
\* settings are as before the build, and the ticker is never attached
C13_AllocationFailure ==
    (AllocFailed /\ bpc \in {"begin", "done", "crash"}) =>
        /\ bpc # "crash"
        /\ parse.res = "fail"
        /\ NrgMbsParam = Param0
        /\ NrgMbsReg = << >> /\ NrgMbsUser = << >>
        /\ Energy.phase_count = Energy0.phase_count
        /\ Settings = Settings0
        /\ ~ticker_energy_modbus

\* C14: the transport exists, and the ticker is attached, only after a
\* build that succeeded; after a build that failed there is no transport,
\* no tick has run and the energy driver is none; after a Begin() that
\* failed no tick has run and the driver is none
C14_TransportAfterBuild ==
    /\ EnergyModbus.created => (bpc = "done" /\ parse.res = "ok")
    /\ ticker_energy_modbus => (EnergyModbus.created /\ EnergyModbus.begun)
    /\ (started \/ tick # NoTick) => ticker_energy_modbus
    /\ (bpc = "done" /\ parse.res # "ok") =>
        /\ ~EnergyModbus.created /\ ~ticker_energy_modbus
        /\ ~started /\ tick = NoTick
        /\ TasmotaGlobal.energy_driver = "ENERGY_NONE"
    /\ (EnergyModbus.created /\ ~EnergyModbus.begun) =>
        /\ ~ticker_energy_modbus
        /\ ~started /\ tick = NoTick
        /\ TasmotaGlobal.energy_driver = "ENERGY_NONE"
C14_Witness ==
    /\ bpc = "done"
    /\ EnergyModbus.created /\ ~EnergyModbus.begun
    /\ TasmotaGlobal.energy_driver = "ENERGY_NONE"

\* The datatype codes that the decoder has a case for
SupportedTypes ==
    {NRG_DT_FLOAT, NRG_DT_S16, NRG_DT_S32, NRG_DT_U16, NRG_DT_U32,
     NRG_DT_S32_SW, NRG_DT_U32_SW}

\* C15: after a successful build the datatype of every register entry is
\* one of the seven supported encodings
C15_SupportedDatatypes ==
    Built =>
        \A i \in 1..Min(NrgMbsParam.total_regs, Len(NrgMbsReg)) :
            NrgMbsReg[i].datatype \in SupportedTypes

\* "T" of an entry is at or above the enum's upper bound
TypeOutOfRange(e) == e.T.t = "num" /\ e.T.n >= NRG_DT_MAX

\* C16: a build is not failed by a datatype code T >= 9, and after it every
\* built-in entry and every surviving user entry that gave such a T has
\* datatype float32
C16_DatatypeDefaulted ==
    /\ (bpc \in {"begin", "done"} /\ heap # "noreg") => parse.res = "ok"
    /\ Built =>
        /\ \A k \in 1..NRG_MBS_MAX_REGS :
            (cfg.Reg[k].t = "obj" /\ TypeOutOfRange(cfg.Reg[k]))
                => NrgMbsReg[k].datatype = NRG_DT_FLOAT
        /\ \A j \in 1..Len(Survivors) :
            TypeOutOfRange(Survivors[j])
                => NrgMbsReg[NRG_MBS_MAX_REGS + j].datatype = NRG_DT_FLOAT

\* C17: after a successful build the scale factor of every register entry
\* is an integer from -4 to 4
C17_FactorRange ==
    Built =>
        \A i \in 1..Min(NrgMbsParam.total_regs, Len(NrgMbsReg)) :
            NrgMbsReg[i].factor \in -4..4

(***************************************************************************)
(* The schema builder over the legacy divisor: "M" from 1 to MaxDivider in *)
(* a built-in entry and in a user entry.                                   *)
(***************************************************************************)
\* largest "M"
MaxDivider == 10000

\* {"Voltage":{"R":0,"M":m},"User":[{"R":72,"M":m,"J":..,"G":..}]}
DividerConfig(m) ==
    Config(Num(1), None,
           [NoRegs EXCEPT ![NRG_MBS_VOLTAGE + 1] = EObj(Num(0), None, None, Num(m))],
           [t |-> "arr", items |->
               <<UserItem(TRUE, Num(72), None, None, Num(m), Num(1), Num(2), None, None)>>])
DividerInputs == {<<DividerConfig(m), "ok">> : m \in 1..MaxDivider}

SpecDivider == InitWith(DividerInputs) /\ [][NextBuild]_vars

\* "M" of the rule file, and the factors built from it
Divider == cfg.Reg[NRG_MBS_VOLTAGE + 1].M.n
BuiltinFactor == NrgMbsReg[NRG_MBS_VOLTAGE + 1].factor
UserFactor == NrgMbsReg[NRG_MBS_MAX_REGS + 1].factor
Pow10(n) == 10 ^ n
PowersOfTen == {Pow10(e) : e \in 0..9}

\* C18: M = 1, 10, 100, 1000, 10000 are converted to F = 0, -1, -2, -3, -4,
\* in the built-in entry and in the user entry
C18_DecadeDivisors ==
    Built =>
        \A e \in 0..4 :
            Divider = Pow10(e) => (BuiltinFactor = -e /\ UserFactor = -e)
C18_Witness ==
    Built /\ Divider = 10000 /\ BuiltinFactor = -4 /\ UserFactor = -4

\* C19 as stated: for M in 1..10000 that is no power of ten, 10^(-F) is the
\* largest power of ten less than M
C19_NextLowerPower ==
    (Built /\ Divider \in 1..10000 /\ Divider \notin PowersOfTen) =>
        \A f \in {BuiltinFactor, UserFactor} :
            /\ -f \in 0..9
            /\ Pow10(-f) < Divider
            /\ \A p \in PowersOfTen : p < Divider => p <= Pow10(-f)

\* C19: for M in 1..10000, 10^(-F) is the power of ten p with
\* p/5 <= M < 2p: the next lower power of ten when M is below twice that
\* power, the next higher power of ten otherwise
C19_DivisionSteps ==
    (Built /\ Divider \in 1..10000) =>
        \A f \in {BuiltinFactor, UserFactor} :
            /\ -f \in 0..9
            /\ 2 * Pow10(-f) <= 10 * Divider
            /\ Divider < 2 * Pow10(-f)
C19_Witness ==
    Built /\ Divider = 2000 /\ BuiltinFactor = -4 /\ UserFactor = -4

\* C20: after a successful build the number of devices and the phase count
\* are both between 1 and 3, whatever the form of the Address key
C20_DeviceAndPhaseRange ==
    Built =>
        /\ NrgMbsParam.devices \in 1..ENERGY_MAX_PHASES
        /\ Energy.phase_count \in 1..ENERGY_MAX_PHASES

\* C21: the first step of the build sets the phase count to 1, and no later
\* step of the build (built-in entries, user entries, the final adjustment
\* for several devices) makes it smaller
C21_PhaseCountGrows ==
    [][/\ bpc = "init" => Energy'.phase_count = 1
       /\ bpc \in {"address", "function", "names", "user", "datatype", "devices"}
            => Energy'.phase_count >= Energy.phase_count]_vars
C21_Witness ==
    /\ bpc = "begin" /\ parse.res = "ok"
    /\ cfg.Reg[NRG_MBS_CURRENT + 1].t = "num"
    /\ cfg.User.t = "none"
    /\ NrgMbsParam.devices = 3
    /\ Energy.phase_count = 3

\* number of addresses the rule gives for a built-in quantity, 0 without it
ConfiguredPhases(name) == EntryPhases(cfg.Reg[name + 1])

\* C22 as stated: after the build the common-voltage flag is true exactly
\* when Voltage has exactly one address, and the common-frequency flag
\* exactly when Frequency has exactly one address, whatever the device count
C22_CommonFlagsAnyMode ==
    Built =>
        /\ Energy.voltage_common <=> (ConfiguredPhases(NRG_MBS_VOLTAGE) = 1)
        /\ Energy.frequency_common <=> (ConfiguredPhases(NRG_MBS_FREQUENCY) = 1)

\* C22: after the build the common-voltage flag is true exactly when Voltage
\* has exactly one address and the device count is not above 1, and the
\* common-frequency flag likewise for Frequency; with several devices both
\* flags are false
C22_CommonFlags ==
    Built =>
        /\ Energy.voltage_common <=>
            (ConfiguredPhases(NRG_MBS_VOLTAGE) = 1 /\ NrgMbsParam.devices <= 1)
        /\ Energy.frequency_common <=>
            (ConfiguredPhases(NRG_MBS_FREQUENCY) = 1 /\ NrgMbsParam.devices <= 1)
C22_Witness ==
    /\ Built
    /\ NrgMbsParam.devices = 3
    /\ ConfiguredPhases(NRG_MBS_VOLTAGE) = 1
    /\ ~Energy.voltage_common

\* The register schema: what the build leaves for the poll loop to read
Schema ==
    <<NrgMbsReg, NrgMbsParam.total_regs, NrgMbsParam.device_address,
      NrgMbsParam.devices, NrgMbsParam.function, Energy.phase_count>>

\* C23: no invocation of the loop (skipped, without response, with an error,
\* with a decoded response, with wraparound) and no return from it changes
\* a register's addresses, datatype or factor, the register count, the
\* device list, the device count, the function code or the phase count
C23_SchemaReadOnly ==
    [][(EnergyModbusLoop \/ LoopReturn) => Schema' = Schema]_vars
C23_Witness ==
    /\ Polling
    /\ tick.ran /\ tick.ok /\ tick.update
    /\ NrgMbsParam.total_regs > NRG_MBS_MAX_REGS
    /\ update_total = MaxUpdates

(***************************************************************************)
(* The frame codec in the poll loop: one register of every supported       *)
(* datatype, and a meter that answers with any two of PayloadWords.        *)
(***************************************************************************)
\* 0x0001, 0x1234, 0x8001, 0xFFFE
PayloadWords == {1, 4660, 32769, 65534}
\* the payload bytes buffer[3..6] of two transmitted words
WordBytes(first, second) ==
    <<first \div 256, first % 256, second \div 256, second % 256>>

\* {"Voltage":{"R":0,"T":T}}
DecodeConfig(T) ==
    Config(Num(1), None,
           [NoRegs EXCEPT ![NRG_MBS_VOLTAGE + 1] = EObj(Num(0), Num(T), None, None)],
           NoUser)
DecodeInputs == {<<DecodeConfig(T), "ok">> : T \in SupportedTypes}

\* The device answers the oldest request with two of the payload words
MeterAnswer ==
    /\ EnergyModbus.wire # << >>
    /\ Len(EnergyModbus.rx) < MaxRx
    /\ \E first \in PayloadWords, second \in PayloadWords :
        EnergyModbus' = [EnergyModbus EXCEPT
                            !.wire = Tail(@),
                            !.rx = Append(@, [req |-> Head(EnergyModbus.wire),
                                              error |-> 0,
                                              buffer |-> WordBytes(first, second)])]
    /\ UNCHANGED <<buildVars, progVars, hostVars, loop_pc, histVars>>

NextDecode ==
    \/ ReadRegistersStart
    \/ ReadAddressKey
    \/ ReadFunctionKey
    \/ ReadNameKey
    \/ ReadDatatypes
    \/ ReadDevices
    \/ SnsInit
    \/ LoopRun
    \/ LoopReturn
    \/ MeterAnswer

SpecDecode == InitWith(DecodeInputs) /\ [][NextDecode]_vars

\* The tick reads a response without error; its payload and the datatype
\* and factor of the register it is decoded for
Decoding ==
    /\ LoopRun
    /\ ReceiveReady(EnergyModbus)
    /\ Head(EnergyModbus.rx).error = 0
Payload == Head(EnergyModbus.rx).buffer
CursorRegister == NrgMbsReg[NrgMbsParam.state + 1]
\* the payload with its two words exchanged
SwapWords(buffer) == <<buffer[3], buffer[4], buffer[1], buffer[2]>>
\* the datatype whose words are transmitted high word first
Unswapped(datatype) ==
    IF datatype = NRG_DT_S32_SW THEN NRG_DT_S32
    ELSE IF datatype = NRG_DT_U32_SW THEN NRG_DT_U32
    ELSE datatype
\* the value the tick leaves in the sink of the register it decoded for
Decoded ==
    LET r == NrgMbsParam.state
        p == NrgMbsParam.phase
    IN  IF r < NRG_MBS_MAX_REGS THEN Energy'[SinkNames[r + 1]][p + 1]
        ELSE NrgMbsUser'[r - NRG_MBS_MAX_REGS + 1].data[p + 1]

\* C24: the value a tick decodes from the payload a,b for a swapped 32-bit
\* datatype is the value the decoder of the non-swapped datatype of the
\* same signedness gives for the payload b,a
C24_SwappedDecoders ==
    [][(Decoding /\ CursorRegister.datatype \in {NRG_DT_S32_SW, NRG_DT_U32_SW}) =>
        Decoded = ScaleValue(DecodeBuffer(SwapWords(Payload),
                                          Unswapped(CursorRegister.datatype), NAN),
                             CursorRegister.factor)]_vars
C24_Witness ==
    /\ Polling /\ tick.ok
    /\ NrgMbsReg[NRG_MBS_VOLTAGE + 1].datatype = NRG_DT_S32_SW
    /\ Energy.voltage[1].k = "num"
    /\ Energy.voltage[1].a < 0

\* The integer a payload encodes in the documented layout (big-endian words,
\* high word first unless swapped, two's complement when signed): its sign
\* and the two 16-bit words of its magnitude
IntegerTypes ==
    {NRG_DT_S16, NRG_DT_S32, NRG_DT_U16, NRG_DT_U32, NRG_DT_S32_SW, NRG_DT_U32_SW}
SignedTypes == {NRG_DT_S16, NRG_DT_S32, NRG_DT_S32_SW}
PayloadInteger(buffer, datatype) ==
    LET first == buffer[1] * 256 + buffer[2]
        second == buffer[3] * 256 + buffer[4]
        wide == datatype \notin {NRG_DT_S16, NRG_DT_U16}
        swapped == datatype \in {NRG_DT_S32_SW, NRG_DT_U32_SW}
        hi == IF ~wide THEN (IF datatype = NRG_DT_S16 /\ first >= 32768 THEN 65535 ELSE 0)
              ELSE IF swapped THEN second ELSE first
        lo == IF ~wide THEN first ELSE IF swapped THEN first ELSE second
        neg == datatype \in SignedTypes /\ hi >= 32768
    IN  IF neg
        THEN [neg |-> TRUE, hi |-> (65535 - hi) + (IF lo = 0 THEN 1 ELSE 0),
              lo |-> (65536 - lo) % 65536]
        ELSE [neg |-> FALSE, hi |-> hi, lo |-> lo]
\* The integer a float a * 2^b is, in the same form
FloatInteger(v) ==
    LET m == IF v.a < 0 THEN -v.a ELSE v.a
    IN  [neg |-> v.a < 0, hi |-> m \div Pow2(16 - v.b),
         lo |-> (m % Pow2(16 - v.b)) * Pow2(v.b)]

\* C25: the value a tick decodes for an integer datatype is the integer the
\* payload encodes: negative for a signed datatype with the top bit set,
\* non-negative for an unsigned one, and equal to the encoded integer
C25_IntegerDecode ==
    [][(Decoding /\ CursorRegister.datatype \in IntegerTypes) =>
        /\ Decoded.k = "num"
        /\ FloatInteger(Decoded) = PayloadInteger(Payload, CursorRegister.datatype)]_vars

\* C26: a request sent in a tick goes, with several devices, to the device
\* whose index is the cursor's phase and to the register in slot 0; with one
\* device, to device 0 and to the register in the slot of the cursor's
\* phase; in both cases with the configured function code
C26_RequestTarget ==
    [][LoopRun => \A i \in 1..Len(tick'.sent) :
        LET request == tick'.sent[i]
            P == NrgMbsParam'
            slots == NrgMbsReg'[P.state + 1].address
        IN  /\ request.func = P.function
            /\ IF P.devices > 1
               THEN /\ request.dev = P.device_address[P.phase + 1]
                    /\ request.addr = slots[1]
               ELSE /\ request.dev = P.device_address[1]
                    /\ request.addr = slots[P.phase + 1]]_vars
C26_Witness ==
    /\ Polling /\ tick.ran /\ tick.sent # << >>
    /\ NrgMbsParam.devices = 2 /\ NrgMbsParam.phase = 1
    /\ tick.sent[1].dev = NrgMbsParam.device_address[2]
    /\ NrgMbsParam.device_address[2] # NrgMbsParam.device_address[1]
    /\ tick.sent[1].func = 3

\* C27: the register count of a request, and the count passed when its
\* response is read, is 2 for float32, int32, uint32 and the swapped
\* datatypes and 1 for int16 and uint16
TwoRegisterTypes ==
    {NRG_DT_FLOAT, NRG_DT_S32, NRG_DT_U32, NRG_DT_S32_SW, NRG_DT_U32_SW}
OneRegisterTypes == {NRG_DT_S16, NRG_DT_U16}
CountOf(datatype, count) ==
    /\ datatype \in TwoRegisterTypes => count = 2
    /\ datatype \in OneRegisterTypes => count = 1
BuiltinSlots == (0 .. NRG_MBS_MAX_REGS - 1) \X (0 .. ENERGY_MAX_PHASES - 1)
UserSlots ==
    {NRG_MBS_MAX_REGS + u - 1 : u \in DOMAIN NrgMbsUser} \X (0 .. ENERGY_MAX_PHASES - 1)

\* C28: a tick that decodes a response writes the value to the slot of the
\* cursor (the built-in sink of the register for index 0..8, the cache of
\* user register index - 9 otherwise, at the cursor's phase) and leaves
\* every other built-in sink slot and user cache slot as it was
C28_OneSlotWritten ==
    [][Decoding =>
        /\ Cursor \in BuiltinSlots \union UserSlots
        /\ Decoded = ScaleValue(DecodeBuffer(Payload, CursorRegister.datatype, NAN),
                                CursorRegister.factor)
        /\ DOMAIN NrgMbsUser' = DOMAIN NrgMbsUser
        /\ \A slot \in (BuiltinSlots \union UserSlots) \ {Cursor} :
             SinkValue(slot[1], slot[2])' = SinkValue(slot[1], slot[2])]_vars
C28_Witness ==
    /\ Polling /\ tick.ran /\ tick.ok
    /\ NrgMbsParam.total_regs = NRG_MBS_MAX_REGS + 1
    /\ NrgMbsUser[1].data[1].k = "num"
    /\ Energy.voltage[1].k = "num"
    /\ Energy.voltage[2].k = "nan" /\ NrgMbsUser[1].data[2].k = "nan"

\* C29: the response a tick decodes and stores in the slot of the cursor
\* answers a request that was sent for that register and phase
C29_ResponseForCursor ==
    [][Decoding =>
        /\ Head(EnergyModbus.rx).req.state = NrgMbsParam.state
        /\ Head(EnergyModbus.rx).req.phase = NrgMbsParam.phase]_vars

\* Device, register address and register count of a request, and those of
\* the request for the cursor position
Target(request) == <<request.dev, request.addr, request.count>>
CursorTarget == Target(LoopRequest(Mem))

\* C30: from the first request on, the most recently sent request is the
\* request for the cursor position at the end of the tick: a tick that
\* sends, sends last the request for the cursor it ends at; a tick that
\* sends nothing, and every step between ticks, leaves the cursor's request
\* as it was; the first tick that runs sends; and a tick that reads a
\* response expects the register count of the cursor's request
C30_LastRequestForCursor ==
    [][IF LoopRun
       THEN /\ IF tick'.sent # << >>
               THEN Target(tick'.sent[Len(tick'.sent)]) = CursorTarget'
               ELSE started /\ CursorTarget' = CursorTarget
            /\ tick'.data_ready => tick'.read_count = CursorTarget[3]
       ELSE started => CursorTarget' = CursorTarget]_vars
C30_Witness ==
    /\ Polling /\ loop_pc = "idle" /\ tick.ran /\ tick.sent = << >>
    /\ NrgMbsParam.state = NRG_MBS_CURRENT
    /\ EnergyModbus.wire # << >>
    /\ Target(EnergyModbus.wire[Len(EnergyModbus.wire)]) = CursorTarget
    /\ CursorTarget # Target(RequestFor(0, 0))

\* C31: the retry budget is 0 or 1, and without a ready response the loop
\* sends on alternating ticks only: when two consecutive ticks both send, a
\* response was ready in the second, and a tick that starts with the budget
\* at 1 and finds no response sends nothing
C31_AlternatingSends ==
    [][/\ NrgMbsParam.retry \in {0, 1} /\ NrgMbsParam'.retry \in {0, 1}
       /\ (EnergyModbusLoop /\ tick.sent # << >> /\ tick'.sent # << >>)
            => tick'.data_ready
       /\ (LoopRun /\ NrgMbsParam.retry = 1 /\ ~tick'.data_ready)
            => (tick'.sent = << >> /\ NrgMbsParam'.retry = 0)]_vars
C31_Witness ==
    /\ Polling /\ started /\ tick.ran /\ ~tick.data_ready /\ tick.sent = << >>
    /\ tick.retry = 1 /\ NrgMbsParam.retry = 0
    /\ EnergyModbus.wire # << >>

AdvanceEntries ==
    {EAbsent, ENum(0), EArr(<<12, 14>>), EArr(<<1, nrg_mbs_reg_not_used, 3>>),
     EArr(<<nrg_mbs_reg_not_used, 2, 3>>)}
\* Rule files with Voltage, Current and ExportActive drawn from these, for one
\* device and for three; one of them configures nothing at all
AdvanceConfigs ==
    {Config(address, None,
            [NoRegs EXCEPT ![NRG_MBS_VOLTAGE + 1] = first,
                           ![NRG_MBS_CURRENT + 1] = second,
                           ![NRG_MBS_MAX_REGS] = last], NoUser) :
        address \in {Num(1), Arr(<<1, 2, 3>>)},
        first \in AdvanceEntries,
        second \in {EAbsent, EArr(<<1, nrg_mbs_reg_not_used, 3>>)},
        last \in {EAbsent, ENum(0), EArr(<<nrg_mbs_reg_not_used, 2, 3>>)}}
AdvanceInputs == {<<c, "ok">> : c \in AdvanceConfigs}

\* The meter answers the oldest request without error
DeviceAnswer ==
    /\ EnergyModbus.wire # << >>
    /\ Len(EnergyModbus.rx) < MaxRx
    /\ EnergyModbus' = [EnergyModbus EXCEPT
                           !.wire = Tail(@),
                           !.rx = Append(@, [req |-> Head(EnergyModbus.wire),
                                             error |-> 0,
                                             buffer |-> MeterData(Head(EnergyModbus.wire))])]
    /\ UNCHANGED <<buildVars, progVars, hostVars, loop_pc, histVars>>

NextAdvance ==
    \/ ReadRegistersStart
    \/ ReadAddressKey
    \/ ReadFunctionKey
    \/ ReadNameKey
    \/ ReadDatatypes
    \/ ReadDevices
    \/ SnsInit
    \/ LoopRun
    \/ LoopReturn
    \/ DeviceAnswer

SpecAdvance == InitWith(AdvanceInputs) /\ [][NextAdvance]_vars

\* C33: the advance loop of a tick ends after at most total_regs *
\* phase_count passes, and leaves the cursor on a slot whose address is not
\* the sentinel or, after a wraparound, at (0, 0)
C33_AdvanceTerminates ==
    [][(Decoding /\ tick'.ok) =>
        /\ tick'.passes >= 1
        /\ tick'.passes <= NrgMbsParam.total_regs * Energy.phase_count
        /\ \/ ~tick'.update /\ SlotUsed(<<NrgMbsParam'.state, NrgMbsParam'.phase>>)
           \/ tick'.update /\ NrgMbsParam'.state = 0 /\ NrgMbsParam'.phase = 0]_vars
\* every address is the sentinel and the loop ran through all 27 slots
C33_Witness ==
    /\ Polling /\ tick.ran /\ tick.ok /\ tick.update
    /\ \A r \in 0 .. NRG_MBS_MAX_REGS - 1, p \in 0 .. ENERGY_MAX_PHASES - 1 :
         NrgMbsReg[r + 1].address[p + 1] = nrg_mbs_reg_not_used
    /\ Energy.phase_count = ENERGY_MAX_PHASES
    /\ tick.passes = NrgMbsParam.total_regs * Energy.phase_count

(***************************************************************************)
(* Additional presentation: EnergyModbusReset and EnergyModbusShow         *)
(***************************************************************************)
\* for (i < user_adds) for (j < ENERGY_MAX_PHASES)
\*   if (NrgMbsReg[NRG_MBS_MAX_REGS + i].address[0] != nrg_mbs_reg_not_used)
\*     NrgMbsUser[i].data[j] = 0
EnergyModbusResetData(M) ==
    [M EXCEPT !.User = [i \in DOMAIN M.User |->
        IF /\ i <= M.P.user_adds
           /\ M.Reg[NRG_MBS_MAX_REGS + i].address[1] # nrg_mbs_reg_not_used
        THEN [M.User[i] EXCEPT !.data = <<Zero, Zero, Zero>>]
        ELSE M.User[i]]]

\* case FUNC_ENERGY_RESET, while the driver is active
EnergyModbusReset ==
    /\ Polling
    /\ SetMem(EnergyModbusResetData(Mem))
    /\ UNCHANGED <<buildVars, loopVars>>

isnan(value) == value.k = "nan"
\* uint32_t single = (!isnan(data[1]) && !isnan(data[2])) ? 0 : 1
ShowSingle(user) == IF ~isnan(user.data[2]) /\ ~isnan(user.data[3]) THEN 0 ELSE 1

\* {"Voltage":[0,2,4],"User":[{"R":72,"T":6,"F":1,"J":..,"G":..}]}: three
\* phases, and a user register with one address
CfgUserPhases ==
    Config(Num(1), None, [NoRegs EXCEPT ![NRG_MBS_VOLTAGE + 1] = EArr(<<0, 2, 4>>)],
           [t |-> "arr", items |-> <<GoodItem(Num(72), Num(6), Num(1))>>])
ShowInputs == {<<CfgUser, "ok">>, <<CfgUserPhases, "ok">>}

NextShow ==
    \/ ReadRegistersStart
    \/ ReadAddressKey
    \/ ReadFunctionKey
    \/ ReadNameKey
    \/ ReadUserKey
    \/ ReadUserEnd
    \/ ReadDatatypes
    \/ ReadDevices
    \/ SnsInit
    \/ LoopRun
    \/ LoopReturn
    \/ DeviceAnswer
    \/ EnergyModbusReset

SpecShow == InitWith(ShowInputs) /\ [][NextShow]_vars

\* A user register with exactly one address, on one device
SingleAddress(i) ==
    /\ NrgMbsParam.devices = 1
    /\ NrgMbsReg[NRG_MBS_MAX_REGS + i].address[1] # nrg_mbs_reg_not_used
    /\ NrgMbsReg[NRG_MBS_MAX_REGS + i].address[2] = nrg_mbs_reg_not_used
    /\ NrgMbsReg[NRG_MBS_MAX_REGS + i].address[3] = nrg_mbs_reg_not_used

\* C34: a user register with a single address on one device keeps "no data"
\* in its cache for phases 1 and 2, so that EnergyModbusShow selects the
\* single-value format for it
C34_SingleValueFormat ==
    Polling => \A i \in 1 .. NrgMbsParam.user_adds :
        SingleAddress(i) =>
            /\ isnan(NrgMbsUser[i].data[2]) /\ isnan(NrgMbsUser[i].data[3])
            /\ ShowSingle(NrgMbsUser[i]) = 1

====
